---------------------------- MODULE Spec2Model ----------------------------
(***************************************************************************)
(* Model of the simulation core of src/src/main.rs: Vect, Dot and Chord    *)
(* (construction by Chord::new / Chord::new_sine and the per-frame         *)
(* Chord::tick).                                                           *)
(*                                                                         *)
(* Numbers.  The program computes in f64.  Every f64 is a dyadic rational, *)
(* and f64 addition, subtraction and multiplication are exact as long as   *)
(* the result fits in 53 significant bits.  The model keeps every          *)
(* coordinate as an integer count of grid steps of 1/Unit, Unit a power of *)
(* two chosen so that all arithmetic of MaxTicks ticks is exact on the     *)
(* grid (GridExact states it, and TLC checks it).  The stiffness k is a    *)
(* number of quarters (k = kq/4), so one scale() needs two more fraction   *)
(* bits than its argument.  The values 5*sin(PI*i/n) of Chord::new_sine    *)
(* are f64 values rounded to 1/256 (exact when the f64 value is 5.0).      *)
(*                                                                         *)
(* Indices.  Vec<Dot> is a sequence; the code's index i is our i+1, and    *)
(* At/Put translate.                                                       *)
(***************************************************************************)
EXTENDS Integers, Sequences, FiniteSets, TLC

\* ------------------------------------------------------------------ bounds
\* Largest segment count n given to a constructor.
MaxN == 5
\* Number of tick() calls followed.
MaxTicks == 3
\* Largest number of points of a directly given chain.
MaxPts == 3
\* Largest y-coordinate (in whole units) of a directly given chain.
MaxY == 1

\* Grid steps per 1.0: 8 fraction bits at construction (0.375 = 3/8 and the
\* sine values in 1/256), two more per tick for the multiplication by kq/4.
Unit == 2^(8 + 2 * MaxTicks)

\* Stiffness values, as numbers of quarters: k = 0, 0.25, 1.
KNums == {0, 1, 4}

\* Gaps between neighbouring x-coordinates of a directly given chain.
GapVals == {1, 2}

\* Whole-unit components of the acceleration a directly given point holds.
AccVals == {0, 3}

VARIABLES
  chord,    \* Chord.chord: the Vec<Dot>
  k,        \* Chord.k, as a number of quarters
  n,        \* the segment count the chain was built with
  profile,  \* "none" before construction, then "linear", "sine" or "given"
  outcome,  \* "none" before construction, "chain" once a Chord was returned
  ticks,    \* number of tick() calls made
  chord0,   \* the Vec<Dot> as it was at construction
  twin,     \* a second chain (used when two chains are compared)
  twin0     \* the second chain as it was at the start

vars == <<chord, k, n, profile, outcome, ticks, chord0, twin, twin0>>

\* ------------------------------------------------------------------ Vect
Vect(x, y) == [x |-> x, y |-> y]

VectAdd(a, b) == [x |-> a.x + b.x, y |-> a.y + b.y]

VectSub(a, b) == [x |-> a.x - b.x, y |-> a.y - b.y]

\* Vect::scale by r = kq/4.
scale(v, kq) == [x |-> (v.x * kq) \div 4, y |-> (v.y * kq) \div 4]

\* ------------------------------------------------------------------- Dot
DotNewDirty(x, y, f) ==
  [pos |-> Vect(x, y), vel |-> Vect(0, 0), acc |-> Vect(x, y), fixed |-> f]

DotNew(x, y, f) ==
  [pos |-> Vect(x, y), vel |-> Vect(0, 0), acc |-> Vect(0, 0), fixed |-> f]

move_it(d) == [d EXCEPT !.pos = VectAdd(d.pos, d.vel)]

accelerate(d) == [d EXCEPT !.vel = VectAdd(d.vel, d.acc)]

get_force(self, dot) == Vect(dot.pos.x - self.pos.x, dot.pos.y - self.pos.y)

set_force_add(d, vect) == [d EXCEPT !.acc = VectAdd(d.acc, vect)]

set_force_free_only(d, vect) == IF d.fixed THEN d ELSE [d EXCEPT !.acc = vect]

set_force(d, vect) == [d EXCEPT !.acc = vect]

\* ----------------------------------------------------------------- Chord
\* dots[i] and dots[i] = d of the code, i counted from 0.
At(dots, i) == dots[i + 1]

Put(dots, i, d) == [dots EXCEPT ![i + 1] = d]

\* i as f64 * 0.375 on the grid.
Times0375(i) == (i * 3 * Unit) \div 8

\* (PI * i / n).sin() * 5. for 1 <= i < n <= 8, in 1/256, rounded to nearest
\* from the f64 value.
SineTable ==
  [m \in 2..8 |->
     CASE m = 2 -> <<1280>>
       [] m = 3 -> <<1109, 1109>>
       [] m = 4 -> <<905, 1280, 905>>
       [] m = 5 -> <<752, 1217, 1217, 752>>
       [] m = 6 -> <<640, 1109, 1280, 1109, 640>>
       [] m = 7 -> <<555, 1001, 1248, 1248, 1001, 555>>
       [] m = 8 -> <<490, 905, 1183, 1280, 1183, 905, 490>>]

Sine5(i, m) == SineTable[m][i] * (Unit \div 256)

\* for i in lo..hi { ds.push(Dot::new(i, i*0.375, false)) }
RECURSIVE PushRising(_, _, _)
PushRising(ds, i, hi) ==
  IF i >= hi THEN ds
  ELSE PushRising(Append(ds, DotNew(i * Unit, Times0375(i), FALSE)), i + 1, hi)

\* for i in lo..hi { ds.push(Dot::new(i, (n-i)*0.375, false)) }
RECURSIVE PushFalling(_, _, _, _)
PushFalling(ds, i, hi, m) ==
  IF i >= hi THEN ds
  ELSE PushFalling(Append(ds, DotNew(i * Unit, Times0375(m - i), FALSE)),
                   i + 1, hi, m)

\* for i in 1..n { ds.push(Dot::new(i, sin(PI*i/n)*5, false)) }
RECURSIVE PushSine(_, _, _)
PushSine(ds, i, m) ==
  IF i >= m THEN ds
  ELSE PushSine(Append(ds, DotNew(i * Unit, Sine5(i, m), FALSE)), i + 1, m)

NewFromZero(m) ==
  LET ds0 == <<DotNew(0, 0, TRUE)>>
      ds1 == PushRising(ds0, 0, m \div 2)
      ds2 == PushFalling(ds1, m \div 2, m, m)
  IN  Append(ds2, DotNew(m * Unit, 0, TRUE))

\* Chord::new(n, k).chord
New(m) ==
  LET ds0 == <<DotNew(0, 0, TRUE)>>
      ds1 == PushRising(ds0, 1, m \div 2)
      ds2 == PushFalling(ds1, m \div 2, m, m)
  IN  Append(ds2, DotNew(m * Unit, 0, TRUE))

\* Chord::new_sine(n, k).chord
NewSine(m) ==
  LET ds0 == <<DotNew(0, 0, TRUE)>>
      ds1 == PushSine(ds0, 1, m)
  IN  Append(ds1, DotNew(m * Unit, 0, TRUE))

ForceOnLeftOnly(dots, i, kq) ==
  LET f0 == Vect(0, 0)
      f1 == IF i > 0 THEN VectAdd(f0, get_force(At(dots, i), At(dots, i - 1)))
            ELSE f0
  IN  scale(f1, kq)

ForceOnOffByOne(dots, i, kq) ==
  LET f0 == Vect(0, 0)
      f1 == IF i > 0 THEN VectAdd(f0, get_force(At(dots, i), At(dots, i - 1)))
            ELSE f0
      f2 == IF i < Len(dots) - 2
            THEN VectAdd(f1, get_force(At(dots, i), At(dots, i + 1)))
            ELSE f1
  IN  scale(f2, kq)

\* The body of the first loop of tick(): the force on dots[i].
ForceOn(dots, i, kq) ==
  LET f0 == Vect(0, 0)
      f1 == IF i > 0 THEN VectAdd(f0, get_force(At(dots, i), At(dots, i - 1)))
            ELSE f0
      f2 == IF i < Len(dots) - 1
            THEN VectAdd(f1, get_force(At(dots, i), At(dots, i + 1)))
            ELSE f1
  IN  scale(f2, kq)

\* First loop of tick(), from index i on: dots is updated in place, so the
\* force on a later point is read from the Vec as the earlier steps left it.
RECURSIVE ForceLoop(_, _, _)
ForceLoop(dots, i, kq) ==
  IF i >= Len(dots) THEN dots
  ELSE ForceLoop(Put(dots, i, set_force(At(dots, i), ForceOn(dots, i, kq))),
                 i + 1, kq)

RECURSIVE MoveLoopNoSkip(_, _)
MoveLoopNoSkip(dots, i) ==
  IF i >= Len(dots) THEN dots
  ELSE MoveLoopNoSkip(Put(dots, i, move_it(accelerate(At(dots, i)))), i + 1)

\* Second loop of tick(), from index i on.
RECURSIVE MoveLoop(_, _)
MoveLoop(dots, i) ==
  IF i >= Len(dots) THEN dots
  ELSE IF At(dots, i).fixed THEN MoveLoop(dots, i + 1)
  ELSE MoveLoop(Put(dots, i, move_it(accelerate(At(dots, i)))), i + 1)

\* One loop that sets the force of a point and moves it at once.
RECURSIVE OnePassLoop(_, _, _)
OnePassLoop(dots, i, kq) ==
  IF i >= Len(dots) THEN dots
  ELSE LET d == set_force(At(dots, i), ForceOn(dots, i, kq))
       IN  OnePassLoop(Put(dots, i, IF d.fixed THEN d
                                    ELSE move_it(accelerate(d))),
                       i + 1, kq)

tickOnePass(dots, kq) == OnePassLoop(dots, 0, kq)

\* Chord::tick
tick(dots, kq) == MoveLoop(ForceLoop(dots, 0, kq), 0)

\* ---------------------------------------------------------------- actions
\* let chord = Chord::new(n, k)
ChordNew ==
  /\ outcome = "none"
  /\ \E m \in 0..MaxN, kq \in KNums :
       /\ chord' = New(m)
       /\ chord0' = New(m)
       /\ k' = kq
       /\ n' = m
  /\ profile' = "linear"
  /\ outcome' = "chain"
  /\ UNCHANGED <<ticks, twin, twin0>>

\* let chord = Chord::new_sine(n, k)
ChordNewSine ==
  /\ outcome = "none"
  /\ \E m \in 0..MaxN, kq \in KNums :
       /\ chord' = NewSine(m)
       /\ chord0' = NewSine(m)
       /\ k' = kq
       /\ n' = m
  /\ profile' = "sine"
  /\ outcome' = "chain"
  /\ UNCHANGED <<ticks, twin, twin0>>

\* chord.tick()
Tick ==
  /\ outcome = "chain"
  /\ ticks < MaxTicks
  /\ chord' = tick(chord, k)
  /\ ticks' = ticks + 1
  /\ UNCHANGED <<k, n, profile, outcome, chord0, twin, twin0>>

\* tick() on each of the two chains
TickBoth ==
  /\ outcome = "chain"
  /\ ticks < MaxTicks
  /\ chord' = tick(chord, k)
  /\ twin' = tick(twin, k)
  /\ ticks' = ticks + 1
  /\ UNCHANGED <<k, n, profile, outcome, chord0, twin0>>

Init ==
  /\ chord = <<>>
  /\ chord0 = <<>>
  /\ twin = <<>>
  /\ twin0 = <<>>
  /\ k = 0
  /\ n = 0
  /\ profile = "none"
  /\ outcome = "none"
  /\ ticks = 0

Next == ChordNew \/ ChordNewSine \/ Tick

Spec == Init /\ [][Next]_vars

\* ------------------------------------------- tick() on any chain of Dots
\* Velocities of a directly given chain, in whole units: all zero, the same
\* for every point, or mirrored about the middle of the chain.
VelPatterns == {"zero", "uniform", "mirror"}

VelOf(vp, i, last) ==
  CASE vp = "zero" -> Vect(0, 0)
    [] vp = "uniform" -> Vect(Unit, -Unit)
    [] vp = "mirror" -> Vect(IF 2 * i < last THEN Unit
                             ELSE IF 2 * i > last THEN -Unit ELSE 0, -Unit)

\* Fixed flags of a directly given chain: both ends, none, all, the first.
FlagPatterns == {"ends", "free", "all", "first"}

FlagOf(fp, i, last) ==
  CASE fp = "ends" -> i = 0 \/ i = last
    [] fp = "free" -> FALSE
    [] fp = "all" -> TRUE
    [] fp = "first" -> i = 0

\* The chain of len Dots with x-coordinates 0, gaps[1], gaps[1]+gaps[2], ...
GivenChain(len, gaps, ys, vp, fp, a) ==
  LET xs[i \in 1..len] == IF i = 1 THEN 0 ELSE xs[i - 1] + gaps[i - 1]
  IN  [i \in 1..len |->
         [pos |-> Vect(xs[i] * Unit, ys[i] * Unit),
          vel |-> VelOf(vp, i - 1, len - 1),
          acc |-> Vect(a * Unit, a * Unit),
          fixed |-> FlagOf(fp, i - 1, len - 1)]]

\* The same Dots holding another acceleration.
WithAcc(dots, a) ==
  [i \in 1..Len(dots) |-> [dots[i] EXCEPT !.acc = Vect(a * Unit, -a * Unit)]]

\* A chain given field by field, and a second one that differs from it in
\* the accelerations only.
InitGiven ==
  \E len \in 2..MaxPts, vp \in VelPatterns, fp \in FlagPatterns,
     kq \in KNums, a \in AccVals :
    \E gaps \in [1..(len - 1) -> GapVals], ys \in [1..len -> 0..MaxY],
       b \in AccVals \ {a} :
      /\ chord = GivenChain(len, gaps, ys, vp, fp, a)
      /\ chord0 = chord
      /\ twin = WithAcc(chord, b)
      /\ twin0 = twin
      /\ k = kq
      /\ n = len - 1
      /\ profile = "given"
      /\ outcome = "chain"
      /\ ticks = 0

\* A chain as a constructor returns it, and a second one that differs from
\* it in the accelerations only.
InitBuilt ==
  \E m \in 0..MaxN, kq \in KNums, b \in AccVals, p \in {"linear", "sine"} :
    /\ chord = IF p = "linear" THEN New(m) ELSE NewSine(m)
    /\ chord0 = chord
    /\ twin = WithAcc(chord, b)
    /\ twin0 = twin
    /\ k = kq
    /\ n = m
    /\ profile = p
    /\ outcome = "chain"
    /\ ticks = 0

InitAny == InitGiven \/ InitBuilt

NextAny == TickBoth

SpecAny == InitAny /\ [][NextAny]_vars

\* ------------------------------------------------------ grid exactness
\* Every coordinate is a multiple of 4^(MaxTicks - ticks) grid steps, so the
\* division by 4 in scale() has no remainder in any tick the model takes:
\* the model computes what exact (unrounded) f64 arithmetic computes.
OnGrid(dots, step) ==
  \A i \in 1..Len(dots) :
    /\ dots[i].pos.x % step = 0 /\ dots[i].pos.y % step = 0
    /\ dots[i].vel.x % step = 0 /\ dots[i].vel.y % step = 0
    /\ dots[i].acc.x % step = 0 /\ dots[i].acc.y % step = 0

GridExact ==
  /\ OnGrid(chord, 4^(MaxTicks - ticks))
  /\ OnGrid(twin, 4^(MaxTicks - ticks))

\* ---------------------------------------------------------------- claims
Zero == Vect(0, 0)

\* Last index (counted from 0) of a chain.
Last(dots) == Len(dots) - 1

\* C1: every fixed point of a constructed chain has, after any number of
\* tick() calls, exactly the position and the velocity it was built with.
C1_FixedFrozen ==
  /\ Len(chord) = Len(chord0)
  /\ \A i \in 1..Len(chord) :
       chord[i].fixed =>
         /\ chord[i].pos = chord0[i].pos
         /\ chord[i].vel = chord0[i].vel

\* Two ticks were made, a free point has moved, and the ends are fixed.
C1_Witness ==
  /\ ticks >= 2
  /\ Len(chord) >= 3
  /\ chord[1].fixed /\ chord[Len(chord)].fixed
  /\ \E i \in 1..Len(chord) :
       ~chord[i].fixed /\ chord[i].pos # chord0[i].pos /\ chord[i].vel # Zero

\* C2: for n >= 2 both constructors return n+1 points, points 0 and n
\* fixed, points 1..n-1 free, all velocities and accelerations zero.
C2_Constructed ==
  (outcome = "chain" /\ profile \in {"linear", "sine"} /\ n >= 2 /\ ticks = 0)
    => /\ Len(chord) = n + 1
       /\ At(chord, 0).fixed
       /\ At(chord, n).fixed
       /\ \A i \in 1..(n - 1) : ~At(chord, i).fixed
       /\ \A i \in 0..n : At(chord, i).vel = Zero /\ At(chord, i).acc = Zero

\* Chord::new_sine(3, k) has just returned its four points.
C2_Witness ==
  /\ outcome = "chain" /\ profile = "sine" /\ n = 3 /\ ticks = 0
  /\ Len(chord) = 4
  /\ ~At(chord, 1).fixed /\ ~At(chord, 2).fixed

\* The two-phase reference update of a chain: every acceleration from the
\* positions held before the tick, then velocity and position of the free
\* points, the new velocity being the one that is integrated.
RefAcc(dots, i, kq) ==
  LET left == IF i > 1 THEN VectSub(dots[i - 1].pos, dots[i].pos) ELSE Zero
      right == IF i < Len(dots) THEN VectSub(dots[i + 1].pos, dots[i].pos)
               ELSE Zero
  IN  Vect(((left.x + right.x) * kq) \div 4, ((left.y + right.y) * kq) \div 4)

RefTick(dots, kq) ==
  [i \in 1..Len(dots) |->
     LET a == RefAcc(dots, i, kq)
         v == VectAdd(dots[i].vel, a)
     IN  IF dots[i].fixed
         THEN [pos |-> dots[i].pos, vel |-> dots[i].vel, acc |-> a,
               fixed |-> TRUE]
         ELSE [pos |-> VectAdd(dots[i].pos, v), vel |-> v, acc |-> a,
               fixed |-> FALSE]]

\* C3: one tick() equals the two-phase reference update.
C3_TwoPhase == [][ticks' = ticks + 1 => chord' = RefTick(chord, k)]_vars

\* After one tick() of Chord::new_sine(2, 0.25), point 1 has acceleration
\* (0,-2.5), velocity (0,-2.5) and position (1,2.5).
C3_Witness ==
  /\ profile = "sine" /\ n = 2 /\ k = 1 /\ ticks = 1
  /\ chord0 = <<DotNew(0, 0, TRUE), DotNew(Unit, 5 * Unit, FALSE),
                DotNew(2 * Unit, 0, TRUE)>>
  /\ At(chord, 1) = [pos |-> Vect(Unit, (5 * Unit) \div 2),
                     vel |-> Vect(0, -((5 * Unit) \div 2)),
                     acc |-> Vect(0, -((5 * Unit) \div 2)),
                     fixed |-> FALSE]

\* C4: a constructor called with n < 2 is rejected with an invalid-argument
\* outcome and returns no chain.
C4_RejectsSmallN ==
  (profile \in {"linear", "sine"} /\ n < 2)
    => (outcome = "invalid_argument" /\ chord = <<>>)

\* Coordinates of the points at construction, in 1/256 (every coordinate
\* a chain starts with is a whole number of these).
WholeX(dots, i) == dots[i].pos.x \div (Unit \div 256)

WholeY(dots, i) == dots[i].pos.y \div (Unit \div 256)

\* All points on one line (every triple has a zero cross product).
Colinear(dots) ==
  \A a \in 1..Len(dots), b \in 1..Len(dots), c \in 1..Len(dots) :
    (WholeX(dots, b) - WholeX(dots, a)) * (WholeY(dots, c) - WholeY(dots, a))
      = (WholeY(dots, b) - WholeY(dots, a)) * (WholeX(dots, c) - WholeX(dots, a))

\* Every interior point is the midpoint of its two neighbours.
EvenlySpaced(dots) ==
  \A i \in 2..(Len(dots) - 1) :
    VectAdd(dots[i - 1].pos, dots[i + 1].pos) = VectAdd(dots[i].pos, dots[i].pos)

ZeroVel(dots) == \A i \in 1..Len(dots) : dots[i].vel = Zero

EndsFixed(dots) == dots[1].fixed /\ dots[Len(dots)].fixed

\* After the first tick every interior point has zero acceleration and its
\* velocity and position of before the tick.
InteriorAtRest ==
  \A i \in 2..(Len(chord) - 1) :
    /\ chord[i].acc = Zero
    /\ chord[i].vel = chord0[i].vel
    /\ chord[i].pos = chord0[i].pos

\* C5 as stated: on any chain with fixed ends whose points are colinear and
\* at rest, one tick() leaves every interior point's acceleration zero and
\* its velocity and position unchanged.
C5_ColinearAtRest ==
  (ticks = 1 /\ Len(chord0) >= 2 /\ EndsFixed(chord0) /\ Colinear(chord0)
     /\ ZeroVel(chord0))
    => InteriorAtRest

\* C5 amended: the same for chains whose points are colinear and evenly
\* spaced (every interior point the midpoint of its neighbours).
C5_EvenlySpacedAtRest ==
  (ticks = 1 /\ Len(chord0) >= 2 /\ EndsFixed(chord0) /\ Colinear(chord0)
     /\ EvenlySpaced(chord0) /\ ZeroVel(chord0))
    => InteriorAtRest

\* One tick() with a non-zero stiffness was made on a straight, evenly
\* spaced chain at rest that has an interior point and distinct points.
C5_Witness ==
  /\ ticks = 1 /\ k # 0
  /\ Len(chord0) >= 3
  /\ EndsFixed(chord0) /\ Colinear(chord0) /\ EvenlySpaced(chord0)
  /\ ZeroVel(chord0)
  /\ chord0[1].pos # chord0[2].pos
  /\ ~chord0[2].fixed
  /\ chord0[2].acc # Zero

\* Two chains agree on everything but the accelerations.
SameButAcc(c1, c2) ==
  /\ Len(c1) = Len(c2)
  /\ \A i \in 1..Len(c1) :
       /\ c1[i].pos = c2[i].pos
       /\ c1[i].vel = c2[i].vel
       /\ c1[i].fixed = c2[i].fixed

\* C6: two chains with the same stiffness, positions, velocities and fixed
\* flags are identical (accelerations included) after a tick() each,
\* whatever accelerations they held before.
C6_Deterministic ==
  (ticks >= 1 /\ SameButAcc(chord0, twin0)) => chord = twin

\* One tick() each was made on two chains that differed in an acceleration
\* of a free point, with a non-zero stiffness.
C6_Witness ==
  /\ ticks = 1 /\ k # 0
  /\ SameButAcc(chord0, twin0)
  /\ \E i \in 1..Len(chord0) :
       /\ chord0[i].acc # twin0[i].acc
       /\ ~chord0[i].fixed
       /\ chord[i].pos # chord0[i].pos
  /\ chord = twin

\* C7: Chord::new(n, k), n >= 2, puts point 0 at (0,0), point n at (n,0),
\* point i at (i, 0.375 i) for 1 <= i < n/2 and at (i, 0.375 (n-i)) for
\* n/2 <= i <= n-1; y rises strictly up to index n/2 and falls strictly
\* from there.
C7_Tent ==
  (profile = "linear" /\ n >= 2 /\ ticks = 0)
    => /\ Len(chord) = n + 1
       /\ At(chord, 0).pos = Vect(0, 0)
       /\ At(chord, n).pos = Vect(n * Unit, 0)
       /\ \A i \in 1..(n - 1) :
            At(chord, i).pos =
              Vect(i * Unit,
                   IF i < n \div 2 THEN (3 * i * Unit) \div 8
                   ELSE (3 * (n - i) * Unit) \div 8)
       /\ \A i \in 0..(n - 1) :
            IF i < n \div 2
            THEN At(chord, i).pos.y < At(chord, i + 1).pos.y
            ELSE At(chord, i).pos.y > At(chord, i + 1).pos.y

\* Chord::new(4, k) has returned (0,0)F, (1,0.375), (2,0.75), (3,0.375),
\* (4,0)F.
C7_Witness ==
  /\ profile = "linear" /\ n = 4 /\ ticks = 0
  /\ chord = <<DotNew(0, 0, TRUE),
               DotNew(Unit, (3 * Unit) \div 8, FALSE),
               DotNew(2 * Unit, (3 * Unit) \div 4, FALSE),
               DotNew(3 * Unit, (3 * Unit) \div 8, FALSE),
               DotNew(4 * Unit, 0, TRUE)>>

\* C8: in every state reached from a chain built with n >= 2 the chain has
\* at least 2 points, the length it was built with, fixed first and last
\* points, and x-positions that increase strictly with the index.
C8_ChainInvariant ==
  (outcome = "chain" /\ profile \in {"linear", "sine"} /\ n >= 2)
    => /\ Len(chord) >= 2
       /\ Len(chord) = Len(chord0)
       /\ chord[1].fixed
       /\ chord[Len(chord)].fixed
       /\ \A i \in 1..Len(chord), j \in 1..Len(chord) :
            i < j => chord[i].pos.x < chord[j].pos.x

\* Two ticks with a non-zero stiffness have moved the interior of a chain
\* of at least four points.
C8_Witness ==
  /\ outcome = "chain" /\ n >= 3 /\ ticks >= 2 /\ k # 0
  /\ \E i \in 1..Len(chord) : chord[i].pos.y # chord0[i].pos.y

\* C9 as stated: tick() leaves every field of a fixed point as it was.
C9_FixedUntouched ==
  [][ticks' = ticks + 1 =>
       \A i \in 1..Len(chord) : chord[i].fixed => chord'[i] = chord[i]]_vars

\* C9 amended: tick() leaves the position, the velocity and the fixed flag
\* of every fixed point as they were and overwrites its acceleration with
\* k times the sum of the relative positions of its neighbours; only free
\* points have their velocity or position changed.
C9_FixedKeepPosVel ==
  [][ticks' = ticks + 1 =>
       /\ Len(chord') = Len(chord)
       /\ \A i \in 1..Len(chord) :
            /\ chord'[i].fixed = chord[i].fixed
            /\ chord[i].fixed =>
                 /\ chord'[i].pos = chord[i].pos
                 /\ chord'[i].vel = chord[i].vel
                 /\ chord'[i].acc = RefAcc(chord, i, k)
            /\ (chord'[i].pos # chord[i].pos \/ chord'[i].vel # chord[i].vel)
                 => ~chord[i].fixed]_vars

\* A tick() has overwritten the acceleration of a fixed point, whose
\* position and velocity are those of construction.
C9_Witness ==
  /\ ticks >= 1
  /\ \E i \in 1..Len(chord) :
       /\ chord[i].fixed
       /\ chord[i].acc # chord0[i].acc
       /\ chord[i].pos = chord0[i].pos
       /\ chord[i].vel = chord0[i].vel

\* Mirror symmetry of positions, velocities and fixed flags about the
\* middle of a chain with points 0..Last.
Mirror(dots) ==
  \A i \in 0..Last(dots) :
    LET d == At(dots, i)
        e == At(dots, Last(dots) - i)
    IN  /\ d.pos.x + e.pos.x = Last(dots) * Unit
        /\ d.pos.y = e.pos.y
        /\ d.vel.x = -e.vel.x
        /\ d.vel.y = e.vel.y
        /\ d.fixed = e.fixed

MirrorAcc(dots) ==
  \A i \in 0..Last(dots) :
    LET d == At(dots, i)
        e == At(dots, Last(dots) - i)
    IN  d.acc.x = -e.acc.x /\ d.acc.y = e.acc.y

=============================================================================
